---- MODULE Spec2Model ----
(***************************************************************************)
(* A model of the feed-forward network of namespace kl: Neuron, Layer      *)
(* (InputLayer / HiddenLayer / OutputLayer) and NeuralNetwork.             *)
(*                                                                         *)
(* Numbers.  A double is modelled as a fixed-point integer: the integer X  *)
(* stands for the real X / One.  Sums and differences are exact, a product *)
(* is rounded to the nearest multiple of 1/One (Mul), and std::tanh is a   *)
(* rational approximation rounded the same way (Tanh).                     *)
(*                                                                         *)
(* Indices.  Sequences are 1-based: m_layers[k] is the code's              *)
(* m_layers[k-1].  The layer numbers recorded in a call trace are the      *)
(* code's 0-based ones.                                                    *)
(***************************************************************************)
EXTENDS Integers, Sequences, FiniteSets, TLC

VARIABLES
    status,          \* "unconstructed" | "ready" | "crashed" (process ended)
    m_topology,      \* NeuralNetwork::m_topology
    m_learningRate,  \* NeuralNetwork::m_learningRate
    m_layers,        \* NeuralNetwork::m_layers, the layers with their neurons
    hist,            \* the calls made on the network so far, oldest first
    norm,            \* the data of a caller of normalizeMatrix / normalizeInput
    train            \* the locals of a training driver of main.cpp

vars == <<status, m_topology, m_learningRate, m_layers, hist, norm, train>>

-----------------------------------------------------------------------------
(* Bounds of the exploration *)

\* number of member-function calls made on one network
MaxCalls == 3

\* topologies the driver constructs networks from, within the documented
\* precondition (at least 2 entries, all positive)
Topologies ==
    { <<2, 1>>, <<1, 2>>, <<2, 2, 1>>, <<1, 2, 2>>, <<2, 1, 2, 1>> }

\* topologies outside the documented precondition
BadTopologies == { <<>>, <<2>>, <<2, 0>>, <<0, 1>>, <<1, 0, 1>> }

\* seeds std::random_device may hand to the generator
Seeds == {0, 1, 2}

-----------------------------------------------------------------------------
(* double arithmetic *)

\* the fixed-point unit: the integer One stands for 1.0
One == 10

\* n / d rounded to the nearest integer, halves away from zero (d > 0)
RoundDiv(n, d) ==
    IF n >= 0 THEN (2 * n + d) \div (2 * d)
              ELSE -((2 * (-n) + d) \div (2 * d))

\* a * b on doubles
Mul(a, b) == RoundDiv(a * b, One)

\* std::tanh: the Pade approximant x (27 + x^2) / (27 + 9 x^2) on (-3, 3),
\* saturated to +-1 outside, as the double result is for large |x|
Tanh(x) ==
    IF x >= 3 * One THEN One
    ELSE IF x <= -(3 * One) THEN -One
    ELSE RoundDiv(x * (27 * One * One + x * x), 27 * One * One + 9 * x * x)

\* Neuron::tanhActivation
tanhActivation(x) == Tanh(x)

\* Neuron::tanhDerivative: 1.0 - std::tanh(x) * std::tanh(x)
tanhDerivative(x) == One - Mul(Tanh(x), Tanh(x))

RECURSIVE SumSeq(_)
SumSeq(s) == IF s = <<>> THEN 0 ELSE s[1] + SumSeq(Tail(s))

-----------------------------------------------------------------------------
(* Neuron and Layer *)

\* Neuron::Neuron()
NewNeuron ==
    [ m_value |-> 0, m_bias |-> 0, m_activation |-> 0, m_gradient |-> 0,
      m_weights |-> <<>> ]

\* InputLayer / HiddenLayer / OutputLayer constructors: m_neurons.resize(n);
\* the adjacency pointers start as nullptr (0)
NewLayer(kind, numNeurons) ==
    [ kind |-> kind,
      m_neurons |-> [i \in 1..numNeurons |-> NewNeuron],
      m_previousLayer |-> 0,
      m_nextLayer |-> 0 ]

\* Layer::getNeurons().size()
Size(layer) == Len(layer.m_neurons)

-----------------------------------------------------------------------------
(* NeuralNetwork construction *)

\* PushLayers with the hidden-layer loop running to i < topology.size():
\* the last entry gets a hidden layer as well as the output layer
PushLayersLoopToEnd(topology) ==
    <<NewLayer("Input", topology[1])>>
    \o [i \in 1..(Len(topology) - 1) |-> NewLayer("Hidden", topology[i + 1])]
    \o <<NewLayer("Output", topology[Len(topology)])>>

\* the layers pushed by the constructor: InputLayer(topology[0]), one
\* HiddenLayer per i with 1 <= i < topology.size() - 1, OutputLayer(back())
PushLayers(topology) ==
    <<NewLayer("Input", topology[1])>>
    \o [i \in 1..(Len(topology) - 2) |-> NewLayer("Hidden", topology[i + 1])]
    \o <<NewLayer("Output", topology[Len(topology)])>>

\* the two linking loops of the constructor
LinkLayers(layers) ==
    [k \in 1..Len(layers) |->
        [layers[k] EXCEPT
            !.m_previousLayer = IF k > 1 THEN k - 1 ELSE 0,
            !.m_nextLayer = IF k < Len(layers) THEN k + 1 ELSE 0]]

\* dis(gen): the n-th number (n = 0, 1, ...) drawn from the generator seeded
\* with seed.  A normal distribution can return any double whatever its
\* deviation, so the draws are modelled by their order alone; seed 0 stands
\* for the run in which every draw is 0.0.
Draw(seed, n) == (((seed * (2 * n + 1)) % 5) - 2) * seed * (One \div 2)

\* number of draws made before layer k (1-based) is initialised
RECURSIVE DrawsBefore(_, _)
DrawsBefore(layers, k) ==
    IF k <= 2 THEN 0
    ELSE DrawsBefore(layers, k - 1)
         + Size(layers[k - 1]) * (Size(layers[k - 2]) + 1)

\* initializeWeightsAndBiases with the weight vector sized by the neuron's
\* own layer instead of the previous one
initializeWeightsOwnSize(layers, seed) ==
    [k \in 1..Len(layers) |->
        IF k = 1 THEN layers[k]
        ELSE LET own == Size(layers[k])
                 base(n) == DrawsBefore(layers, k) + (n - 1) * (own + 1)
             IN  [layers[k] EXCEPT !.m_neurons =
                    [n \in 1..Size(layers[k]) |->
                        [layers[k].m_neurons[n] EXCEPT
                            !.m_bias = Draw(seed, base(n)),
                            !.m_weights =
                                [j \in 1..own |-> Draw(seed, base(n) + j)]]]]]

\* NeuralNetwork::initializeWeightsAndBiases: for every layer after the
\* first, for every neuron in order: a bias, then prevNeurons.size() weights
initializeWeightsAndBiases(layers, seed) ==
    [k \in 1..Len(layers) |->
        IF k = 1 THEN layers[k]
        ELSE LET fanIn == Size(layers[k - 1])
                 base(n) == DrawsBefore(layers, k) + (n - 1) * (fanIn + 1)
             IN  [layers[k] EXCEPT !.m_neurons =
                    [n \in 1..Size(layers[k]) |->
                        [layers[k].m_neurons[n] EXCEPT
                            !.m_bias = Draw(seed, base(n)),
                            !.m_weights =
                                [j \in 1..fanIn |-> Draw(seed, base(n) + j)]]]]]

\* NeuralNetwork::NeuralNetwork, for a topology with at least one entry
NewNetwork(topology, seed) ==
    initializeWeightsAndBiases(LinkLayers(PushLayers(topology)), seed)

-----------------------------------------------------------------------------
(* Layer operations.  Each takes the network's layers and the 1-based     *)
(* position k of the layer it is invoked on, and yields the layers after. *)

SetNeurons(layers, k, neurons) == [layers EXCEPT ![k].m_neurons = neurons]

\* input[i] for the code's i = idx - 1: the entry when it exists, otherwise
\* whatever the out-of-bounds read returns
ReadAt(vec, idx, junk) == IF idx <= Len(vec) THEN vec[idx] ELSE junk[idx]

\* forwardParam storing the input as each neuron's value only, leaving the
\* activation the next layer reads as it was
InputLayer_forwardParamValueOnly(layers, k, input, junk) ==
    SetNeurons(layers, k,
        [i \in 1..Size(layers[k]) |->
            [layers[k].m_neurons[i] EXCEPT
                !.m_value = ReadAt(input, i, junk)]])

\* InputLayer::forwardParam
InputLayer_forwardParam(layers, k, input, junk) ==
    SetNeurons(layers, k,
        [i \in 1..Size(layers[k]) |->
            [layers[k].m_neurons[i] EXCEPT
                !.m_value = ReadAt(input, i, junk),
                !.m_activation = ReadAt(input, i, junk)]])

\* WeightedSum accumulating onto the neuron's stored activation instead of
\* starting from 0.0
WeightedSumNotReset(prev, neuron) ==
    neuron.m_activation
    + SumSeq([i \in 1..Size(prev) |->
                Mul(prev.m_neurons[i].m_activation, neuron.m_weights[i])])
    + neuron.m_bias

\* the weighted sum of one neuron: the products with the previous layer's
\* activations, accumulated from 0.0, plus the bias
WeightedSum(prev, neuron) ==
    SumSeq([i \in 1..Size(prev) |->
                Mul(prev.m_neurons[i].m_activation, neuron.m_weights[i])])
    + neuron.m_bias

\* HiddenLayer::forward
HiddenLayer_forward(layers, k) ==
    LET prev == layers[layers[k].m_previousLayer]
    IN  SetNeurons(layers, k,
            [n \in 1..Size(layers[k]) |->
                [layers[k].m_neurons[n] EXCEPT !.m_activation =
                    tanhActivation(WeightedSum(prev, layers[k].m_neurons[n]))]])

\* OutputLayer::forward
OutputLayer_forward(layers, k) ==
    LET prev == layers[layers[k].m_previousLayer]
    IN  SetNeurons(layers, k,
            [n \in 1..Size(layers[k]) |->
                [layers[k].m_neurons[n] EXCEPT !.m_activation =
                    tanhActivation(WeightedSum(prev, layers[k].m_neurons[n]))]])

\* the sum over the next layer's neurons of weight[i] * gradient
DownstreamGradientSum(next, i) ==
    SumSeq([d \in 1..Size(next) |->
                Mul(next.m_neurons[d].m_weights[i], next.m_neurons[d].m_gradient)])

\* HiddenLayer::backward applying each gradient to the neuron's bias at once
HiddenLayer_backwardOnline(layers, k) ==
    LET next == layers[layers[k].m_nextLayer]
    IN  SetNeurons(layers, k,
            [i \in 1..Size(layers[k]) |->
                LET gradient ==
                        Mul(DownstreamGradientSum(next, i),
                            tanhDerivative(layers[k].m_neurons[i].m_activation))
                IN  [layers[k].m_neurons[i] EXCEPT
                        !.m_gradient = gradient,
                        !.m_bias = layers[k].m_neurons[i].m_bias + gradient]])

\* HiddenLayer::backward
HiddenLayer_backward(layers, k) ==
    LET next == layers[layers[k].m_nextLayer]
    IN  SetNeurons(layers, k,
            [i \in 1..Size(layers[k]) |->
                [layers[k].m_neurons[i] EXCEPT !.m_gradient =
                    Mul(DownstreamGradientSum(next, i),
                        tanhDerivative(layers[k].m_neurons[i].m_activation))]])

\* OutputLayer::backwardParam with the error taken as activation - target
OutputLayer_backwardParamFlipped(layers, k, target, junk) ==
    SetNeurons(layers, k,
        [i \in 1..Size(layers[k]) |->
            LET activation == layers[k].m_neurons[i].m_activation
                error == activation - ReadAt(target, i, junk)
            IN  [layers[k].m_neurons[i] EXCEPT !.m_gradient =
                    Mul(error, tanhDerivative(activation))]])

\* OutputLayer::backwardParam
OutputLayer_backwardParam(layers, k, target, junk) ==
    SetNeurons(layers, k,
        [i \in 1..Size(layers[k]) |->
            LET activation == layers[k].m_neurons[i].m_activation
                error == ReadAt(target, i, junk) - activation
            IN  [layers[k].m_neurons[i] EXCEPT !.m_gradient =
                    Mul(error, tanhDerivative(activation))]])

\* the virtual call m_layers[k]->forward(); InputLayer::forward is empty
Layer_forward(layers, k) ==
    CASE layers[k].kind = "Input"  -> layers
      [] layers[k].kind = "Hidden" -> HiddenLayer_forward(layers, k)
      [] layers[k].kind = "Output" -> OutputLayer_forward(layers, k)

\* the virtual call m_layers[k]->backward(); InputLayer::backward and
\* OutputLayer::backward are empty
Layer_backward(layers, k) ==
    CASE layers[k].kind = "Input"  -> layers
      [] layers[k].kind = "Hidden" -> HiddenLayer_backward(layers, k)
      [] layers[k].kind = "Output" -> layers

-----------------------------------------------------------------------------
(* NeuralNetwork operations.  A run of one operation is the pair of the   *)
(* layers and the trace of the layer member functions it has invoked, in   *)
(* order, each with the code's 0-based layer number.                       *)

Invoke(run, method, k, layers) ==
    [ layers |-> layers,
      calls |-> Append(run.calls, [method |-> method, layer |-> k - 1]) ]

StartRun(layers) == [layers |-> layers, calls |-> <<>>]

\* for (size_t i = from; i < m_layers.size(); ++i) m_layers[i]->forward();
\* k is i + 1
RECURSIVE ForwardLoop(_, _)
ForwardLoop(run, k) ==
    IF k - 1 < Len(run.layers)
    THEN ForwardLoop(Invoke(run, "forward", k, Layer_forward(run.layers, k)), k + 1)
    ELSE run

\* the backward loop running down to i = 0, the input layer included
RECURSIVE BackwardLoopToZero(_, _)
BackwardLoopToZero(run, k) ==
    IF k - 1 >= 0
    THEN BackwardLoopToZero(
             Invoke(run, "backward", k, Layer_backward(run.layers, k)), k - 1)
    ELSE run

\* for (size_t i = from; i > 0; --i) m_layers[i]->backward(); k is i + 1
RECURSIVE BackwardLoop(_, _)
BackwardLoop(run, k) ==
    IF k - 1 > 0
    THEN BackwardLoop(Invoke(run, "backward", k, Layer_backward(run.layers, k)), k - 1)
    ELSE run

\* NeuralNetwork::forwardPropagation
forwardPropagation(layers, input, junk) ==
    ForwardLoop(
        Invoke(StartRun(layers), "forwardParam", 1,
               InputLayer_forwardParam(layers, 1, input, junk)),
        2)

\* backPropagation with the loop starting at i = m_layers.size() - 1
backPropagationFromLast(layers, target, junk) ==
    BackwardLoop(
        Invoke(StartRun(layers), "backwardParam", Len(layers),
               OutputLayer_backwardParam(layers, Len(layers), target, junk)),
        Len(layers))

\* NeuralNetwork::backPropagation: the loop starts at i = m_layers.size() - 2
backPropagation(layers, target, junk) ==
    BackwardLoop(
        Invoke(StartRun(layers), "backwardParam", Len(layers),
               OutputLayer_backwardParam(layers, Len(layers), target, junk)),
        Len(layers) - 1)

\* UpdateNeuron multiplying by the neuron's own activation instead of the
\* activation of neuron j of the previous layer
UpdateNeuronOwnActivation(neuron, prevNeurons, learningRate) ==
    [neuron EXCEPT
        !.m_weights =
            [j \in 1..Len(neuron.m_weights) |->
                neuron.m_weights[j]
                + Mul(Mul(learningRate, neuron.m_gradient), neuron.m_activation)],
        !.m_bias = neuron.m_bias + Mul(learningRate, neuron.m_gradient)]

\* the body of the loops of updateWeightsAndBiases for one neuron
UpdateNeuron(neuron, prevNeurons, learningRate) ==
    [neuron EXCEPT
        !.m_weights =
            [j \in 1..Len(neuron.m_weights) |->
                neuron.m_weights[j]
                + Mul(Mul(learningRate, neuron.m_gradient),
                      prevNeurons[j].m_activation)],
        !.m_bias = neuron.m_bias + Mul(learningRate, neuron.m_gradient)]

\* updateWeightsAndBiases clearing every gradient it has applied
updateWeightsAndBiasesZeroGrad(layers, learningRate) ==
    [k \in 1..Len(layers) |->
        IF k = 1 THEN layers[k]
        ELSE [layers[k] EXCEPT !.m_neurons =
                [n \in 1..Size(layers[k]) |->
                    [UpdateNeuron(layers[k].m_neurons[n],
                                  layers[k - 1].m_neurons, learningRate)
                        EXCEPT !.m_gradient = 0]]]]

\* updateWeightsAndBiases running the forward loop again on the stored input
\* once the parameters are updated
updateWeightsAndBiasesRefreshing(layers, learningRate) ==
    ForwardLoop(
        StartRun([k \in 1..Len(layers) |->
            IF k = 1 THEN layers[k]
            ELSE [layers[k] EXCEPT !.m_neurons =
                    [n \in 1..Size(layers[k]) |->
                        UpdateNeuron(layers[k].m_neurons[n],
                                     layers[k - 1].m_neurons, learningRate)]]]),
        2).layers

\* NeuralNetwork::updateWeightsAndBiases
updateWeightsAndBiases(layers, learningRate) ==
    [k \in 1..Len(layers) |->
        IF k = 1 THEN layers[k]
        ELSE [layers[k] EXCEPT !.m_neurons =
                [n \in 1..Size(layers[k]) |->
                    UpdateNeuron(layers[k].m_neurons[n],
                                 layers[k - 1].m_neurons, learningRate)]]]

\* the vector predict builds from the output layer after the forward pass
OutputActivations(layers) ==
    [i \in 1..Size(layers[Len(layers)]) |->
        layers[Len(layers)].m_neurons[i].m_activation]

\* calculateError reading each output neuron's value instead of its
\* activation
calculateErrorFromValue(layers, target, junk) ==
    LET outputNeurons == layers[Len(layers)].m_neurons
        value(i) == IF i <= Len(outputNeurons)
                    THEN outputNeurons[i].m_value ELSE junk[i]
    IN  SumSeq([i \in 1..Len(target) |->
                    (target[i] - value(i)) * (target[i] - value(i))])

\* NeuralNetwork::calculateError: the sum over i < target.size() of
\* 0.5 * pow(target[i] - activation, 2).  The returned double is kept exact:
\* the integer E stands for E / (2 * One * One).
calculateError(layers, target, junk) ==
    LET outputNeurons == layers[Len(layers)].m_neurons
        activation(i) == IF i <= Len(outputNeurons)
                         THEN outputNeurons[i].m_activation ELSE junk[i]
    IN  SumSeq([i \in 1..Len(target) |->
                    (target[i] - activation(i)) * (target[i] - activation(i))])

\* NeuralNetwork::predict: the forward pass, then the copy of the output
\* layer's activations
predict(layers, input, junk) ==
    LET run == forwardPropagation(layers, input, junk)
    IN  [run |-> run, output |-> OutputActivations(run.layers)]

-----------------------------------------------------------------------------
(* The callers' arguments *)

\* learning rates handed to the constructor: 0.5 and 1.0
LearningRates == {One \div 2, One}

\* input vectors of length n: all ones, and 0, -1, 0, -1, ...
InputSamples(n) ==
    { [i \in 1..n |-> One],
      [i \in 1..n |-> IF i % 2 = 1 THEN 0 ELSE -One] }

\* target vectors of length n: all zeros, and 1, -0.5, 1, -0.5, ...
TargetSamples(n) ==
    { [i \in 1..n |-> 0],
      [i \in 1..n |-> IF i % 2 = 1 THEN One ELSE -(One \div 2)] }

\* vectors one entry shorter and one entry longer than the n a layer expects
MismatchedSamples(n) ==
    { [i \in 1..m |-> One \div 2] : m \in {n - 1, n + 1} \cap Nat }

\* what a read past the end of a vector may return, at every index
JunkReads == { [i \in 1..4 |-> g] : g \in {-One, 3 * One} }

\* the reads of a call whose vector is long enough: none is out of bounds
NoJunk == <<>>

InputSize == Size(m_layers[1])
OutputSize == Size(m_layers[Len(m_layers)])

-----------------------------------------------------------------------------
(* Actions: one per public member function of NeuralNetwork *)

\* no network has been constructed yet
Unconstructed ==
    /\ status = "unconstructed"
    /\ m_topology = <<>>
    /\ m_learningRate = 0
    /\ m_layers = <<>>
    /\ hist = <<>>

\* no matrix is being normalised; no training driver is running
NoData == [matrix |-> <<>>]
NoDriver == [pc |-> "off"]

Init ==
    /\ Unconstructed
    /\ norm = NoData
    /\ train = NoDriver

\* NeuralNetwork nn(topology, learningRate).  With an empty topology the
\* constructor reads topology[0] of an empty vector and its loop bound
\* topology.size() - 1 wraps around: the process does not survive it.
Construct(topology, learningRate, seed) ==
    /\ status = "unconstructed"
    /\ IF Len(topology) = 0
       THEN /\ status' = "crashed"
            /\ UNCHANGED <<m_topology, m_learningRate, m_layers, hist>>
       ELSE /\ status' = "ready"
            /\ m_topology' = topology
            /\ m_learningRate' = learningRate
            /\ m_layers' = NewNetwork(topology, seed)
            /\ hist' = <<>>

\* a call that returns: the network is left as the call's run left it
Record(name, arg, ret, run) ==
    /\ status = "ready"
    /\ m_layers' = run.layers
    /\ hist' = Append(hist, [ name |-> name, arg |-> arg, ret |-> ret,
                              outcome |-> "returned", before |-> m_layers,
                              calls |-> run.calls ])
    /\ UNCHANGED <<status, m_topology, m_learningRate>>

\* a call of the bounded callers
Return(name, arg, ret, run) ==
    Len(hist) < MaxCalls /\ Record(name, arg, ret, run)

\* a call stopped by a failed bounds assertion of the vector library
Abort(name, arg) ==
    /\ status = "ready"
    /\ Len(hist) < MaxCalls
    /\ status' = "crashed"
    /\ hist' = Append(hist, [ name |-> name, arg |-> arg, ret |-> <<>>,
                              outcome |-> "aborted", before |-> m_layers,
                              calls |-> <<>> ])
    /\ UNCHANGED <<m_topology, m_learningRate, m_layers>>

ForwardPropagation(input, junk) ==
    Return("forwardPropagation", input, <<>>,
           forwardPropagation(m_layers, input, junk))

BackPropagation(target, junk) ==
    Return("backPropagation", target, <<>>,
           backPropagation(m_layers, target, junk))

UpdateWeightsAndBiases ==
    Return("updateWeightsAndBiases", <<>>, <<>>,
           StartRun(updateWeightsAndBiases(m_layers, m_learningRate)))

Predict(input, junk) ==
    LET p == predict(m_layers, input, junk)
    IN  Return("predict", input, p.output, p.run)

\* calculateError is const: it leaves the layers as they are
CalculateError(target, junk) ==
    Return("calculateError", target,
           <<calculateError(m_layers, target, junk)>>, StartRun(m_layers))

-----------------------------------------------------------------------------
(* Spec: a caller that keeps the documented preconditions *)

DoConstruct ==
    \E t \in Topologies, lr \in LearningRates, seed \in Seeds :
        Construct(t, lr, seed)

DoForward ==
    status = "ready" /\ \E input \in InputSamples(InputSize) :
        ForwardPropagation(input, NoJunk)

DoBackward ==
    status = "ready" /\ \E target \in TargetSamples(OutputSize) :
        BackPropagation(target, NoJunk)

DoUpdate == UpdateWeightsAndBiases

DoPredict ==
    status = "ready" /\ \E input \in InputSamples(InputSize) :
        Predict(input, NoJunk)

DoError ==
    status = "ready" /\ \E target \in TargetSamples(OutputSize) :
        CalculateError(target, NoJunk)

Next ==
    \/ DoConstruct /\ UNCHANGED <<norm, train>>
    \/ DoForward /\ UNCHANGED <<norm, train>>
    \/ DoBackward /\ UNCHANGED <<norm, train>>
    \/ DoUpdate /\ UNCHANGED <<norm, train>>
    \/ DoPredict /\ UNCHANGED <<norm, train>>
    \/ DoError /\ UNCHANGED <<norm, train>>

Spec == Init /\ [][Next]_vars

-----------------------------------------------------------------------------
(* SpecAny: a caller that may also break the preconditions of the          *)
(* constructor, of forwardPropagation and of backPropagation               *)

BadConstruct ==
    \E t \in BadTopologies, lr \in LearningRates, seed \in Seeds :
        Construct(t, lr, seed)

\* input[i] past the end of a shorter input is read anyway; a longer input
\* is read up to the layer's size
BadForward ==
    status = "ready" /\ \E input \in MismatchedSamples(InputSize),
                           junk \in JunkReads :
        /\ Len(input) > InputSize => junk = CHOOSE j \in JunkReads : TRUE
        /\ ForwardPropagation(input, junk)

BadBackward ==
    status = "ready" /\ \E target \in MismatchedSamples(OutputSize),
                           junk \in JunkReads :
        /\ Len(target) > OutputSize => junk = CHOOSE j \in JunkReads : TRUE
        /\ BackPropagation(target, junk)

\* the same reads in a build that keeps the vector library's assertions
AssertForward ==
    status = "ready" /\ \E input \in MismatchedSamples(InputSize) :
        Len(input) < InputSize /\ Abort("forwardPropagation", input)

AssertBackward ==
    status = "ready" /\ \E target \in MismatchedSamples(OutputSize) :
        Len(target) < OutputSize /\ Abort("backPropagation", target)

NextAny ==
    \/ Next
    \/ BadConstruct /\ UNCHANGED <<norm, train>>
    \/ BadForward /\ UNCHANGED <<norm, train>>
    \/ BadBackward /\ UNCHANGED <<norm, train>>
    \/ AssertForward /\ UNCHANGED <<norm, train>>
    \/ AssertBackward /\ UNCHANGED <<norm, train>>

SpecAny == Init /\ [][NextAny]_vars

-----------------------------------------------------------------------------
(* utils.cpp: min-max normalisation.  A matrix is the sequence of its      *)
(* rows, each a sequence of doubles; it has at least one row.              *)

\* number of rows of a reference matrix
MaxRows == 3

\* the rows a data matrix is made of: two columns of raw values
DataRows == {-One, 0, One \div 2} \X {-One, 0, One \div 2}

Matrices == UNION { [1..n -> DataRows] : n \in 1..MaxRows }

\* a / b on doubles, for b > 0
Div(a, b) == RoundDiv(a * One, b)

\* matrix.col(col), col 1-based
Col(matrix, col) == [r \in 1..Len(matrix) |-> matrix[r][col]]

\* Eigen's minCoeff() and maxCoeff() of a column
minCoeff(column) ==
    CHOOSE m \in {column[r] : r \in 1..Len(column)} :
        \A r \in 1..Len(column) : m <= column[r]

maxCoeff(column) ==
    CHOOSE m \in {column[r] : r \in 1..Len(column)} :
        \A r \in 1..Len(column) : m >= column[r]

\* normalizeInput
normalizeInput(input, reference) ==
    [col \in 1..Len(input) |->
        LET minVal == minCoeff(Col(reference, col))
            maxVal == maxCoeff(Col(reference, col))
        IN  IF maxVal # minVal
            THEN Div(input[col] - minVal, maxVal - minVal)
            ELSE 0]

\* normalizeMatrix taking the minimum and maximum of the whole matrix
\* instead of the column's
normalizeMatrixWholeRange(matrix) ==
    LET all == {matrix[r][c] : r \in 1..Len(matrix), c \in 1..Len(matrix[1])}
        minVal == CHOOSE m \in all : \A x \in all : m <= x
        maxVal == CHOOSE m \in all : \A x \in all : m >= x
    IN  [r \in 1..Len(matrix) |->
            [col \in 1..Len(matrix[1]) |->
                IF maxVal # minVal
                THEN Div(matrix[r][col] - minVal, maxVal - minVal)
                ELSE 0]]

\* normalizeMatrix: column by column, the whole column at once
normalizeMatrix(matrix) ==
    LET minVal(col) == minCoeff(Col(matrix, col))
        maxVal(col) == maxCoeff(Col(matrix, col))
    IN  [r \in 1..Len(matrix) |->
            [col \in 1..Len(matrix[1]) |->
                IF maxVal(col) # minVal(col)
                THEN Div(matrix[r][col] - minVal(col), maxVal(col) - minVal(col))
                ELSE 0]]

\* a caller holding a data matrix, before any normalisation
InitNorm ==
    /\ Unconstructed
    /\ train = NoDriver
    /\ \E m \in Matrices :
        norm = [ matrix |-> m, normalizedData |-> <<>>,
                 row |-> 0, normalizedInput |-> <<>> ]

\* normalizedData = normalizeMatrix(matrix)
DoNormalizeMatrix ==
    /\ norm.matrix # <<>>
    /\ norm' = [norm EXCEPT !.normalizedData = normalizeMatrix(norm.matrix)]
    /\ UNCHANGED <<status, m_topology, m_learningRate, m_layers, hist, train>>

\* normalizeInput(matrix.row(r), matrix) for a row r of the matrix
DoNormalizeInput ==
    /\ norm.matrix # <<>>
    /\ \E r \in 1..Len(norm.matrix) :
        norm' = [norm EXCEPT
                    !.row = r,
                    !.normalizedInput =
                        normalizeInput(norm.matrix[r], norm.matrix)]
    /\ UNCHANGED <<status, m_topology, m_learningRate, m_layers, hist, train>>

NextNorm ==
    \/ DoNormalizeMatrix
    \/ DoNormalizeInput

SpecNorm == InitNorm /\ [][NextNorm]_vars

-----------------------------------------------------------------------------
(* main.cpp: the training drivers testXOR, testSineFunction and testIris.  *)
(* Each constructs a network, runs `epochs` epochs over its data set, row  *)
(* by row, and then calls predict on its test inputs.  The drivers' 6000,  *)
(* 10000 and 1000 epochs are cut to MaxEpochs; the learning rate 0.01 is   *)
(* below the resolution of the arithmetic, so the drivers run with the     *)
(* rates of LearningRates.                                                 *)

\* int epochs
MaxEpochs == 2

\* testXOR: the four rows of inputs and targets; every row is a test input
XorData ==
    [ topology |-> <<2, 4, 1>>,
      inputs   |-> << <<0, 0>>, <<0, One>>, <<One, 0>>, <<One, One>> >>,
      targets  |-> << <<0>>, <<One>>, <<One>>, <<0>> >>,
      tests    |-> << <<0, 0>>, <<0, One>>, <<One, 0>>, <<One, One>> >> ]

\* testSineFunction with four samples instead of 50: x = -pi + i * (2 pi / 4)
\* and sin(x); the test loop's stride of 5 reaches row 0 only
SineData ==
    [ topology |-> <<1, 6, 1>>,
      inputs   |-> << <<-31>>, <<-16>>, <<0>>, <<16>> >>,
      targets  |-> << <<0>>, <<-One>>, <<0>>, <<One>> >>,
      tests    |-> << <<-31>> >> ]

\* the matrix readCSV returns for iris.csv, cut to one row per class
irisData ==
    << <<51, 35, 14, 2>>, <<70, 32, 47, 14>>, <<63, 33, 60, 25>> >>

\* the matrix readCSV returns for iris_out.csv: one row per row of irisData
irisTargets ==
    << <<One, 0, 0>>, <<0, One, 0>>, <<0, 0, One>> >>

\* customInput << 7.9, 3.8, 6.4, 2.0
customInput == <<79, 38, 64, 20>>

\* testIris: trains on the normalised matrix, tests the normalised custom
\* input
IrisData ==
    [ topology |-> <<4, 5, 4, 3>>,
      inputs   |-> normalizeMatrix(irisData),
      targets  |-> irisTargets,
      tests    |-> << normalizeInput(customInput, irisData) >> ]

Datasets == {XorData, SineData, IrisData}

\* a driver has been entered with its data; nn is not constructed yet
InitTrain ==
    /\ Unconstructed
    /\ norm = NoData
    /\ \E d \in Datasets :
        train = [ pc |-> "construct", data |-> d,
                  epoch |-> 0, i |-> 0, totalError |-> 0 ]

\* NeuralNetwork nn(topology, learningRate); then epoch 0, row 0.  i counts
\* the rows from 1.
TrainConstruct ==
    /\ train.pc = "construct"
    /\ \E lr \in LearningRates, seed \in Seeds :
        Construct(train.data.topology, lr, seed)
    /\ train' = [train EXCEPT !.pc = "forward", !.epoch = 0, !.i = 1,
                              !.totalError = 0]
    /\ UNCHANGED norm

\* nn.forwardPropagation(inputs.row(i))
TrainForward ==
    /\ train.pc = "forward"
    /\ Record("forwardPropagation", train.data.inputs[train.i], <<>>,
              forwardPropagation(m_layers, train.data.inputs[train.i], NoJunk))
    /\ train' = [train EXCEPT !.pc = "backward"]
    /\ UNCHANGED norm

\* backPropagation called with the first row's target whatever the row
TrainBackwardFirstRow ==
    /\ train.pc = "backward"
    /\ Record("backPropagation", train.data.targets[1], <<>>,
              backPropagation(m_layers, train.data.targets[1], NoJunk))
    /\ train' = [train EXCEPT !.pc = "update"]
    /\ UNCHANGED norm

\* nn.backPropagation(targets.row(i))
TrainBackward ==
    /\ train.pc = "backward"
    /\ Record("backPropagation", train.data.targets[train.i], <<>>,
              backPropagation(m_layers, train.data.targets[train.i], NoJunk))
    /\ train' = [train EXCEPT !.pc = "update"]
    /\ UNCHANGED norm

\* nn.updateWeightsAndBiases()
TrainUpdate ==
    /\ train.pc = "update"
    /\ Record("updateWeightsAndBiases", <<>>, <<>>,
              StartRun(updateWeightsAndBiases(m_layers, m_learningRate)))
    /\ train' = [train EXCEPT !.pc = "error"]
    /\ UNCHANGED norm

\* totalError += nn.calculateError(targets.row(i)); then the next row, or
\* the next epoch with a fresh totalError, or the test phase
TrainError ==
    /\ train.pc = "error"
    /\ LET target == train.data.targets[train.i]
           error == calculateError(m_layers, target, NoJunk)
       IN  /\ Record("calculateError", target, <<error>>, StartRun(m_layers))
           /\ train' =
                IF train.i < Len(train.data.inputs)
                THEN [train EXCEPT !.pc = "forward", !.i = @ + 1,
                                   !.totalError = @ + error]
                ELSE IF train.epoch + 1 < MaxEpochs
                THEN [train EXCEPT !.pc = "forward", !.epoch = @ + 1,
                                   !.i = 1, !.totalError = 0]
                ELSE [train EXCEPT !.pc = "test", !.i = 1,
                                   !.totalError = @ + error]
    /\ UNCHANGED norm

\* nn.predict(...) on the next test input; after the last one the driver
\* returns
TrainPredict ==
    /\ train.pc = "test"
    /\ LET p == predict(m_layers, train.data.tests[train.i], NoJunk)
       IN  Record("predict", train.data.tests[train.i], p.output, p.run)
    /\ train' = IF train.i < Len(train.data.tests)
                THEN [train EXCEPT !.i = @ + 1]
                ELSE [train EXCEPT !.pc = "done"]
    /\ UNCHANGED norm

NextTrain ==
    \/ TrainConstruct
    \/ TrainForward
    \/ TrainBackward
    \/ TrainUpdate
    \/ TrainError
    \/ TrainPredict

SpecTrain == InitTrain /\ [][NextTrain]_vars

-----------------------------------------------------------------------------
(* Reading the history *)

Calls == 1..Len(hist)

\* the layers as call i left them
After(i) == IF i < Len(hist) THEN hist[i + 1].before ELSE m_layers

Returned(i, name) == hist[i].name = name /\ hist[i].outcome = "returned"

\* a topology within the constructor's documented precondition
WellFormed(topology) ==
    Len(topology) >= 2 /\ \A i \in 1..Len(topology) : topology[i] > 0

\* the three calls i, i + 1, i + 2 are one training cycle
IsCycle(i) ==
    /\ i + 2 <= Len(hist)
    /\ Returned(i, "forwardPropagation")
    /\ Returned(i + 1, "backPropagation")
    /\ Returned(i + 2, "updateWeightsAndBiases")

\* the call that led to the current state.  Every call of a history is the
\* latest call of the state it returned into, so a property of the latest
\* call that holds in every reachable state holds of every call.
Latest == {i \in Calls : i = Len(hist)}

\* the cycle, if any, that the latest call completes
LatestCycle == {i \in Calls : i + 2 = Len(hist)}

-----------------------------------------------------------------------------
(* C1: construction from a topology with fewer than 2 entries, or with an  *)
(* entry 0, fails: no network comes out of it.                             *)

C1_MalformedTopologyRejected ==
    status = "ready" => WellFormed(m_topology)

-----------------------------------------------------------------------------
(* C2: forwardPropagation with an input, and backPropagation with a        *)
(* target, whose length differs from the neuron count of the input         *)
(* (output) layer fails with an error: such a call never returns.          *)

C2_MismatchedLengthFails ==
    \A i \in Calls :
        /\ hist[i].name = "forwardPropagation"
           /\ Len(hist[i].arg) # Size(hist[i].before[1])
           => hist[i].outcome # "returned"
        /\ hist[i].name = "backPropagation"
           /\ Len(hist[i].arg) # Size(hist[i].before[Len(hist[i].before)])
           => hist[i].outcome # "returned"

-----------------------------------------------------------------------------
(* C3: for a topology of at least 2 positive entries the network has one   *)
(* layer per entry, the first Input, the last Output, the others Hidden,   *)
(* with the entries as neuron counts, and keeps that shape through every   *)
(* sequence of calls.                                                      *)

HasShape(layers, topology) ==
    /\ Len(layers) = Len(topology)
    /\ \A k \in 1..Len(layers) :
        /\ Size(layers[k]) = topology[k]
        /\ layers[k].kind = IF k = 1 THEN "Input"
                            ELSE IF k = Len(layers) THEN "Output"
                            ELSE "Hidden"

C3_ShapeFollowsTopology ==
    status = "ready" /\ WellFormed(m_topology)
        => /\ HasShape(m_layers, m_topology)
           /\ \A i \in Calls : HasShape(hist[i].before, m_topology)

\* a network with two hidden layers has been through a whole cycle
C3_Witness ==
    /\ status = "ready"
    /\ Len(m_topology) = 4
    /\ \E i \in Calls : IsCycle(i)

-----------------------------------------------------------------------------
(* C4: in every state after construction every neuron of a layer after the *)
(* first has as many weights as the layer before it has neurons, and the   *)
(* neurons of the input layer have none.                                   *)

WeightsFit(layers) ==
    \A k \in 1..Len(layers) : \A n \in 1..Size(layers[k]) :
        Len(layers[k].m_neurons[n].m_weights)
            = IF k = 1 THEN 0 ELSE Size(layers[k - 1])

C4_WeightCountIsFanIn ==
    status = "ready" => WeightsFit(m_layers)

\* the weights have been updated in a network whose layers differ in size
C4_Witness ==
    /\ status = "ready"
    /\ \E i \in Calls : Returned(i, "updateWeightsAndBiases")
    /\ \E k \in 2..Len(m_layers) : Size(m_layers[k]) # Size(m_layers[k - 1])

-----------------------------------------------------------------------------
(* C5: the factor a backward pass multiplies into a neuron's gradient is   *)
(* 1 - a^2 for the neuron's stored activation a: the output gradient is    *)
(* (target - a)(1 - a^2), a hidden gradient is the downstream sum times    *)
(* 1 - a^2, with no further tanh of a.                                     *)

DerivativeFromActivation(a) == One - Mul(a, a)

C5_GradientUsesOneMinusSquare ==
    \A i \in Calls : Returned(i, "backPropagation") =>
        LET after == After(i)
            last == Len(after)
        IN  /\ \A n \in 1..Size(after[last]) :
                LET a == after[last].m_neurons[n].m_activation
                IN  after[last].m_neurons[n].m_gradient
                        = Mul(hist[i].arg[n] - a, DerivativeFromActivation(a))
            /\ \A k \in 2..(last - 1) : \A n \in 1..Size(after[k]) :
                LET a == after[k].m_neurons[n].m_activation
                IN  after[k].m_neurons[n].m_gradient
                        = Mul(DownstreamGradientSum(after[k + 1], n),
                              DerivativeFromActivation(a))

-----------------------------------------------------------------------------
(* C6: one updateWeightsAndBiases adds learningRate * gradient(n) *        *)
(* activation(neuron j of layer k-1) to weight j, and learningRate *       *)
(* gradient(n) to the bias, of every neuron n of every layer k after the   *)
(* first, with the gradients and activations stored when the call began;   *)
(* the input layer's neurons are not changed.                              *)

C6_UpdateRule ==
    \A i \in Calls : Returned(i, "updateWeightsAndBiases") =>
        LET old == hist[i].before
            new == After(i)
        IN  /\ new[1] = old[1]
            /\ \A k \in 2..Len(old) : \A n \in 1..Size(old[k]) :
                LET o == old[k].m_neurons[n]
                    w == new[k].m_neurons[n]
                IN  /\ Len(w.m_weights) = Len(o.m_weights)
                    /\ \A j \in 1..Len(o.m_weights) :
                        w.m_weights[j] - o.m_weights[j]
                            = Mul(Mul(m_learningRate, o.m_gradient),
                                  old[k - 1].m_neurons[j].m_activation)
                    /\ w.m_bias - o.m_bias = Mul(m_learningRate, o.m_gradient)

\* an update that moved a weight and a bias
C6_Witness ==
    \E i \in Calls :
        /\ Returned(i, "updateWeightsAndBiases")
        /\ \E k \in 2..Len(m_layers) : \E n \in 1..Size(m_layers[k]) :
            /\ After(i)[k].m_neurons[n].m_bias # hist[i].before[k].m_neurons[n].m_bias
            /\ \E j \in 1..Size(m_layers[k - 1]) :
                After(i)[k].m_neurons[n].m_weights[j]
                    # hist[i].before[k].m_neurons[n].m_weights[j]

-----------------------------------------------------------------------------
(* C7: on a network with a hidden layer whose weights and biases are all   *)
(* 0, one forwardPropagation -> backPropagation -> updateWeightsAndBiases  *)
(* cycle leaves every activation after the input layer 0, every output     *)
(* gradient equal to its target, every hidden gradient 0, every weight 0,  *)
(* every hidden bias 0 and output bias i equal to learningRate * target[i]. *)

AllParametersZero(layers) ==
    \A k \in 2..Len(layers) : \A n \in 1..Size(layers[k]) :
        /\ layers[k].m_neurons[n].m_bias = 0
        /\ \A j \in 1..Len(layers[k].m_neurons[n].m_weights) :
            layers[k].m_neurons[n].m_weights[j] = 0

ZeroCycle(i) ==
    IsCycle(i) /\ Len(hist[i].before) >= 3 /\ AllParametersZero(hist[i].before)

C7_FirstCycleFromZero ==
    \A i \in Calls : ZeroCycle(i) =>
        LET end == After(i + 2)
            last == Len(end)
            target == hist[i + 1].arg
        IN  /\ \A k \in 2..last : \A n \in 1..Size(end[k]) :
                /\ end[k].m_neurons[n].m_activation = 0
                /\ \A j \in 1..Len(end[k].m_neurons[n].m_weights) :
                    end[k].m_neurons[n].m_weights[j] = 0
            /\ \A k \in 2..(last - 1) : \A n \in 1..Size(end[k]) :
                /\ end[k].m_neurons[n].m_gradient = 0
                /\ end[k].m_neurons[n].m_bias = 0
            /\ \A n \in 1..Size(end[last]) :
                /\ end[last].m_neurons[n].m_gradient = target[n]
                /\ end[last].m_neurons[n].m_bias = Mul(m_learningRate, target[n])

\* such a cycle with a nonzero input and a nonzero target
C7_Witness ==
    \E i \in Calls :
        /\ ZeroCycle(i)
        /\ \E j \in 1..Len(hist[i].arg) : hist[i].arg[j] # 0
        /\ \E n \in 1..Len(hist[i + 1].arg) : hist[i + 1].arg[n] # 0

-----------------------------------------------------------------------------
(* C8: two predict calls with the same input and no                        *)
(* updateWeightsAndBiases between them return the same vector, whatever    *)
(* the calls before and between left in the neurons; the vector has one    *)
(* entry per output neuron, its activation after the forward pass.         *)

NoUpdateBetween(i, j) ==
    \A m \in i..j : hist[m].name # "updateWeightsAndBiases"

SamePredict(i, j) ==
    /\ i < j
    /\ Returned(i, "predict") /\ Returned(j, "predict")
    /\ hist[i].arg = hist[j].arg
    /\ NoUpdateBetween(i, j)

C8_PredictRepeats ==
    /\ \A i, j \in Calls : SamePredict(i, j) => hist[i].ret = hist[j].ret
    /\ \A i \in Calls : Returned(i, "predict") =>
        LET out == After(i)[Len(After(i))]
        IN  /\ Len(hist[i].ret) = Size(out)
            /\ \A n \in 1..Size(out) :
                hist[i].ret[n] = out.m_neurons[n].m_activation

\* the same nonzero prediction twice, with a call in between that changed
\* the neurons
C8_Witness ==
    \E i, j \in Calls :
        /\ SamePredict(i, j)
        /\ j = i + 2
        /\ After(i + 1) # After(i)
        /\ \E n \in 1..Len(hist[j].ret) : hist[j].ret[n] # 0

-----------------------------------------------------------------------------
(* C9: calculateError(target) returns the sum over the output neurons of   *)
(* 0.5 * (target[i] - activation[i])^2 for the stored activations, changes *)
(* nothing in the network, and returns 0 exactly when every output         *)
(* activation equals its target entry.  (The result is in units of         *)
(* 1 / (2 * One * One), so the sum of the squared differences.)            *)

RECURSIVE SquaredDifferences(_, _, _)
SquaredDifferences(neurons, target, n) ==
    IF n = 0 THEN 0
    ELSE SquaredDifferences(neurons, target, n - 1)
         + (target[n] - neurons[n].m_activation)
           * (target[n] - neurons[n].m_activation)

C9_ErrorIsHalfSquaredDistance ==
    \A i \in Calls : Returned(i, "calculateError") =>
        LET out == hist[i].before[Len(hist[i].before)].m_neurons
            target == hist[i].arg
        IN  /\ hist[i].ret = <<SquaredDifferences(out, target, Len(out))>>
            /\ After(i) = hist[i].before
            /\ hist[i].ret[1] = 0
                <=> \A n \in 1..Len(out) : out[n].m_activation = target[n]

\* an error of 0 against a nonzero target, and a nonzero error
C9_Witness ==
    /\ \E i \in Calls :
        /\ Returned(i, "calculateError")
        /\ hist[i].ret[1] = 0
        /\ \E n \in 1..Len(hist[i].arg) : hist[i].arg[n] # 0
    /\ \E i \in Calls : Returned(i, "calculateError") /\ hist[i].ret[1] > 0

-----------------------------------------------------------------------------
(* C10: a topology of 2 entries gives an Input and an Output layer, the    *)
(* Input layer being the Output layer's predecessor; forwardPropagation    *)
(* computes the output activations from the input, backPropagation         *)
(* computes the output gradients and invokes backward() on no layer, and   *)
(* updateWeightsAndBiases updates the output layer from the input          *)
(* activations.                                                            *)

RECURSIVE DotProduct(_, _, _)
DotProduct(xs, ws, n) ==
    IF n = 0 THEN 0 ELSE DotProduct(xs, ws, n - 1) + Mul(xs[n], ws[n])

TwoLayerCall(i) ==
    LET old == hist[i].before
        new == After(i)
        arg == hist[i].arg
    IN  /\ Returned(i, "forwardPropagation") =>
            /\ hist[i].calls = << [method |-> "forwardParam", layer |-> 0],
                                  [method |-> "forward", layer |-> 1] >>
            /\ \A n \in 1..Size(new[2]) :
                new[2].m_neurons[n].m_activation
                    = Tanh(DotProduct(arg, old[2].m_neurons[n].m_weights, Len(arg))
                           + old[2].m_neurons[n].m_bias)
        /\ Returned(i, "backPropagation") =>
            /\ hist[i].calls = << [method |-> "backwardParam", layer |-> 1] >>
            /\ new[1] = old[1]
            /\ \A n \in 1..Size(new[2]) :
                new[2].m_neurons[n].m_gradient
                    = Mul(arg[n] - old[2].m_neurons[n].m_activation,
                          tanhDerivative(old[2].m_neurons[n].m_activation))
        /\ Returned(i, "updateWeightsAndBiases") =>
            /\ new[1] = old[1]
            /\ \A n \in 1..Size(new[2]) : \A j \in 1..Size(old[1]) :
                new[2].m_neurons[n].m_weights[j]
                    = old[2].m_neurons[n].m_weights[j]
                      + Mul(Mul(m_learningRate, old[2].m_neurons[n].m_gradient),
                            old[1].m_neurons[j].m_activation)

C10_TwoEntryTopology ==
    status = "ready" /\ Len(m_topology) = 2 =>
        /\ Len(m_layers) = 2
        /\ m_layers[1].kind = "Input" /\ m_layers[2].kind = "Output"
        /\ m_layers[2].m_previousLayer = 1
        /\ \A i \in Calls : TwoLayerCall(i)

\* a two-layer network went through a cycle that moved an output weight
C10_Witness ==
    /\ status = "ready" /\ Len(m_topology) = 2
    /\ \E i \in Calls :
        /\ IsCycle(i)
        /\ \E n \in 1..Size(m_layers[2]) :
            /\ After(i)[2].m_neurons[n].m_activation # 0
            /\ After(i + 2)[2].m_neurons[n].m_weights
                # hist[i].before[2].m_neurons[n].m_weights

-----------------------------------------------------------------------------
(* C11: normalizeMatrix maps every entry of a column that is not constant  *)
(* into [0, 1] and every entry of a constant column to 0, and for a row r  *)
(* of a reference matrix M, normalizeInput(r, M) is row r of               *)
(* normalizeMatrix(M), column by column.                                   *)

ConstantColumn(matrix, col) ==
    \A r \in 1..Len(matrix) : matrix[r][col] = matrix[1][col]

C11_NormalisationAgrees ==
    /\ norm.matrix # <<>> /\ norm.normalizedData # <<>> =>
        /\ Len(norm.normalizedData) = Len(norm.matrix)
        /\ \A r \in 1..Len(norm.matrix) : \A col \in 1..Len(norm.matrix[r]) :
            IF ConstantColumn(norm.matrix, col)
            THEN norm.normalizedData[r][col] = 0
            ELSE norm.normalizedData[r][col] \in 0..One
    /\ norm.matrix # <<>> /\ norm.row # 0 =>
        \A col \in 1..Len(norm.matrix[norm.row]) :
            norm.normalizedInput[col] = normalizeMatrix(norm.matrix)[norm.row][col]

\* a matrix with a constant column and a column whose normalised entries
\* include one strictly inside (0, 1), normalised both ways
C11_Witness ==
    /\ norm.matrix # <<>> /\ norm.normalizedData # <<>> /\ norm.row # 0
    /\ ConstantColumn(norm.matrix, 1)
    /\ norm.matrix[1][1] # 0
    /\ ~ConstantColumn(norm.matrix, 2)
    /\ norm.normalizedInput[2] \in 1..(One - 1)
    /\ norm.normalizedData[norm.row] = norm.normalizedInput

-----------------------------------------------------------------------------
(* C12: every backPropagation call on a network of L layers first computes *)
(* the output layer's gradients from the target and then calls backward()  *)
(* exactly once on each of the layers L-2, ..., 1 (0-based), in decreasing *)
(* order, and never on layer 0; the gradient a hidden layer gets is        *)
(* computed from the gradients its successor got earlier in the same call. *)

\* the trace of a backward pass over L layers
BackwardTrace(L) ==
    [j \in 1..(L - 1) |->
        IF j = 1 THEN [method |-> "backwardParam", layer |-> L - 1]
        ELSE [method |-> "backward", layer |-> L - j]]

\* the gradient of neuron n of hidden layer k, from the successor's
\* gradients in the layers next
GradientFrom(next, layers, k, n) ==
    Mul(DownstreamGradientSum(next[k + 1], n),
        tanhDerivative(layers[k].m_neurons[n].m_activation))

C12_BackwardOrder ==
    \A i \in Latest : Returned(i, "backPropagation") =>
        LET L == Len(hist[i].before)
            out == After(i)[L].m_neurons
        IN  /\ hist[i].calls = BackwardTrace(L)
            /\ \A c \in 1..Len(hist[i].calls) : hist[i].calls[c].layer # 0
            /\ \A n \in 1..Len(out) :
                out[n].m_gradient =
                    Mul(hist[i].arg[n] - out[n].m_activation,
                        tanhDerivative(out[n].m_activation))
            /\ \A k \in 2..(L - 1) : \A n \in 1..Size(After(i)[k]) :
                After(i)[k].m_neurons[n].m_gradient =
                    GradientFrom(After(i), After(i), k, n)

\* a backward pass over four layers in which the first hidden layer's new
\* gradient is not what the successor's gradients of before the call give
C12_Witness ==
    \E i \in Calls :
        /\ Returned(i, "backPropagation")
        /\ Len(hist[i].before) = 4
        /\ \E n \in 1..Size(After(i)[2]) :
            /\ After(i)[2].m_neurons[n].m_gradient # 0
            /\ After(i)[2].m_neurons[n].m_gradient #
                   GradientFrom(hist[i].before, After(i), 2, n)

-----------------------------------------------------------------------------
(* C13: every forwardPropagation call (predict's included) first sets the  *)
(* value and the activation of every input neuron i to input[i] and then   *)
(* calls forward() exactly once on each of the layers 1, ..., L-1          *)
(* (0-based), in increasing order; every layer's activations after the     *)
(* call are computed from the previous layer's activations of this call,   *)
(* none from an earlier call.                                              *)

\* the trace of a forward pass over L layers
ForwardTrace(L) ==
    [j \in 1..L |->
        IF j = 1 THEN [method |-> "forwardParam", layer |-> 0]
        ELSE [method |-> "forward", layer |-> j - 1]]

IsForwardPass(i) ==
    Returned(i, "forwardPropagation") \/ Returned(i, "predict")

\* the activation of neuron n of layer k, from the previous layer's
\* activations in the layers prev
ActivationFrom(prev, layers, k, n) ==
    tanhActivation(WeightedSum(prev[k - 1], layers[k].m_neurons[n]))

C13_ForwardOrder ==
    \A i \in Latest : IsForwardPass(i) =>
        LET L == Len(hist[i].before)
            in == After(i)[1].m_neurons
        IN  /\ hist[i].calls = ForwardTrace(L)
            /\ \A n \in 1..Len(in) :
                /\ in[n].m_value = hist[i].arg[n]
                /\ in[n].m_activation = hist[i].arg[n]
            /\ \A k \in 2..L : \A n \in 1..Size(After(i)[k]) :
                After(i)[k].m_neurons[n].m_activation =
                    ActivationFrom(After(i), After(i), k, n)

\* a forward pass that follows an earlier one with another input, over at
\* least three layers, where a layer past the first hidden one gets an
\* activation other than the previous layer's stale activations give
C13_Witness ==
    \E i \in Calls : \E h \in 1..(i - 1) :
        /\ IsForwardPass(i) /\ IsForwardPass(h)
        /\ hist[h].arg # hist[i].arg
        /\ Len(hist[i].before) >= 3
        /\ \E k \in 3..Len(hist[i].before) : \E n \in 1..Size(After(i)[k]) :
            After(i)[k].m_neurons[n].m_activation #
                ActivationFrom(hist[i].before, After(i), k, n)

-----------------------------------------------------------------------------
(* C14: forwardPropagation and predict leave every weight, bias and        *)
(* gradient unchanged; backPropagation leaves every activation, value,     *)
(* weight and bias unchanged and changes nothing of an input neuron;       *)
(* updateWeightsAndBiases leaves every activation, value and gradient      *)
(* unchanged; a layer's forward() or backward() modifies only the neurons  *)
(* of that layer.                                                          *)

\* the layers a and b have the same shape and agree on the given fields of
\* every neuron
SameFields(a, b, fields) ==
    LET Part(layers) ==
            [k \in 1..Len(layers) |->
                [n \in 1..Size(layers[k]) |->
                    [f \in fields |-> layers[k].m_neurons[n][f]]]]
    IN  Part(a) = Part(b)

\* the layers a and b differ at most in layer k
OnlyLayerDiffers(a, b, k) ==
    /\ Len(a) = Len(b)
    /\ \A j \in 1..Len(a) : j # k => a[j] = b[j]

\* the layer states to apply a layer's member functions to: the current
\* one, when there is a network (every earlier one was the current one of an
\* earlier state)
LayerStates == IF status = "ready" THEN {m_layers} ELSE {}

C14_Frame ==
    /\ \A i \in Latest :
        /\ IsForwardPass(i) =>
            SameFields(hist[i].before, After(i),
                       {"m_weights", "m_bias", "m_gradient"})
        /\ Returned(i, "backPropagation") =>
            /\ SameFields(hist[i].before, After(i),
                          {"m_activation", "m_value", "m_weights", "m_bias"})
            /\ hist[i].before[1] = After(i)[1]
        /\ Returned(i, "updateWeightsAndBiases") =>
            SameFields(hist[i].before, After(i),
                       {"m_activation", "m_value", "m_gradient"})
    /\ \A layers \in LayerStates : \A k \in 1..Len(layers) :
        /\ OnlyLayerDiffers(layers, Layer_forward(layers, k), k)
        /\ OnlyLayerDiffers(layers, Layer_backward(layers, k), k)

\* a forward pass, a backward pass and an update that each changed the
\* network, on a network where forward() and backward() of a hidden layer
\* change that layer
C14_Witness ==
    \E i \in Calls :
        /\ IsCycle(i)
        /\ hist[i].before # After(i)
        /\ hist[i + 1].before # After(i + 1)
        /\ hist[i + 2].before # After(i + 2)
        /\ \E layers \in LayerStates : \E k \in 2..(Len(layers) - 1) :
            /\ Layer_forward(layers, k) # layers
            /\ Layer_backward(layers, k) # layers

-----------------------------------------------------------------------------
(* C16: within a training cycle no weight and no bias is modified between  *)
(* the start of forwardPropagation and the end of backPropagation: every   *)
(* gradient of the cycle is computed against the parameters the forward    *)
(* pass used, and parameters change only inside updateWeightsAndBiases.    *)

Parameters == {"m_weights", "m_bias"}

C16_ParametersFixedUntilUpdate ==
    /\ \A i \in LatestCycle : IsCycle(i) =>
        SameFields(hist[i].before, After(i + 1), Parameters)
    /\ \A i \in Latest :
        hist[i].outcome = "returned" /\ hist[i].name # "updateWeightsAndBiases"
            => SameFields(hist[i].before, After(i), Parameters)

\* a cycle on a network with a hidden layer whose backward pass wrote a
\* hidden gradient other than 0 and whose update changed a parameter
C16_Witness ==
    \E i \in Calls :
        /\ IsCycle(i)
        /\ Len(hist[i].before) >= 3
        /\ \E n \in 1..Size(After(i + 1)[2]) :
            After(i + 1)[2].m_neurons[n].m_gradient # 0
        /\ ~SameFields(hist[i + 2].before, After(i + 2), Parameters)

-----------------------------------------------------------------------------
(* C15: in every training driver, each epoch goes through the samples in   *)
(* data-set order and performs for each sample, exactly once each and in   *)
(* this order: forwardPropagation with the sample's input, backPropagation *)
(* with the sample's target, updateWeightsAndBiases (and then the driver's *)
(* calculateError with the same target).                                   *)

\* the number of samples of the running driver, and of calls of its
\* training phase
NumSamples == Len(train.data.inputs)
TrainingCalls == 4 * NumSamples * MaxEpochs

\* the sample (from 1) call number c of the training phase belongs to
SampleOf(c) == (((c - 1) \div 4) % NumSamples) + 1

\* how many calls of a sample have been made when the driver is at pc
DoneInSample(pc) ==
    CASE pc = "forward"  -> 0
      [] pc = "backward" -> 1
      [] pc = "update"   -> 2
      [] pc = "error"    -> 3

C15_DriverOrder ==
    train.pc # "construct" =>
        /\ \A c \in Calls : c <= TrainingCalls =>
            /\ hist[c].outcome = "returned"
            /\ CASE (c - 1) % 4 = 0 ->
                       /\ hist[c].name = "forwardPropagation"
                       /\ hist[c].arg = train.data.inputs[SampleOf(c)]
                 [] (c - 1) % 4 = 1 ->
                       /\ hist[c].name = "backPropagation"
                       /\ hist[c].arg = train.data.targets[SampleOf(c)]
                 [] (c - 1) % 4 = 2 ->
                       hist[c].name = "updateWeightsAndBiases"
                 [] (c - 1) % 4 = 3 ->
                       /\ hist[c].name = "calculateError"
                       /\ hist[c].arg = train.data.targets[SampleOf(c)]
        /\ \A c \in Calls : c > TrainingCalls => hist[c].name = "predict"
        /\ IF train.pc \in {"test", "done"}
           THEN Len(hist) >= TrainingCalls
           ELSE Len(hist) = 4 * (train.epoch * NumSamples + train.i - 1)
                            + DoneInSample(train.pc)

\* a driver over at least three samples has finished its last epoch
C15_Witness ==
    /\ train.pc = "test"
    /\ NumSamples >= 3
    /\ MaxEpochs >= 2
    /\ Len(hist) = TrainingCalls
    /\ Returned(Len(hist) - 1, "updateWeightsAndBiases")

-----------------------------------------------------------------------------
(* C17: in the training drivers calculateError is called after             *)
(* updateWeightsAndBiases and returns the error of the forward pass made   *)
(* before the update: the stored output activations are not recomputed,    *)
(* so the result is not the error the updated weights would give.          *)

\* the error a fresh forward pass of input through layers gives for target
ErrorRecomputed(layers, input, target) ==
    calculateError(forwardPropagation(layers, input, NoJunk).layers,
                   target, NoJunk)

C17_ErrorIsPreUpdate ==
    \A c \in Calls : Returned(c, "calculateError") =>
        /\ c >= 4
        /\ Returned(c - 1, "updateWeightsAndBiases")
        /\ Returned(c - 2, "backPropagation")
        /\ Returned(c - 3, "forwardPropagation")
        /\ LET out == After(c - 3)[Len(After(c - 3))].m_neurons
           IN  /\ hist[c].ret = <<SquaredDifferences(out, hist[c].arg, Len(out))>>
               /\ OutputActivations(hist[c].before) = OutputActivations(After(c - 3))

\* a calculateError of a driver, after an update that changed a parameter,
\* whose result is not the error of a forward pass with the updated weights
C17_Witness ==
    \E c \in Calls :
        /\ Returned(c, "calculateError")
        /\ c >= 4
        /\ Returned(c - 1, "updateWeightsAndBiases")
        /\ ~SameFields(hist[c - 1].before, After(c - 1), Parameters)
        /\ hist[c].ret[1] #
               ErrorRecomputed(hist[c].before, hist[c - 3].arg, hist[c].arg)

====
